---- MODULE Spec2Model ----
(***************************************************************************)
(* Injector state graph of codes/models/steps/injectors.py.                *)
(*                                                                         *)
(* A configuration record (opt) is turned into an Injector instance by     *)
(* create_injector; a step executor then calls each instance's forward on  *)
(* the shared state dict, in declared order, and merges the returned dict. *)
(*                                                                         *)
(* Python values are modelled as records of one shape so that they can be  *)
(* compared: a config field that may be a string, a list or missing is     *)
(* [kind, keys]; a state value is [kind, v, items] with kind "tensor",     *)
(* "scalar" or "tuple".  An exception is the name of its Python class.     *)
(*                                                                         *)
(* The executor's configured sequence is drawn one injector at a time:     *)
(* create_injector reads its opt only, so building the i-th injector when  *)
(* its turn comes reaches the same (injector, state) pairs as building the *)
(* whole sequence before the first step.  Python's assert statements are   *)
(* taken as enabled (no -O).                                               *)
(***************************************************************************)
EXTENDS Integers, Sequences, FiniteSets, TLC

\* ---------------------------------------------------------------- bounds
\* Longest sequence of injectors the executor runs in one step.
MaxInjectors == 2
\* Longest list/tuple an external sub-model returns.
MaxResultLen == 3
\* Largest value of env['step'] the executor advances to.
MaxStep == 1
\* Largest tensor datum an external sub-model returns.
MaxData == 1
\* Largest noise draw of randn_like.
MaxNoise == 1
\* Largest freeze_quantizer_until a TransformerDiffusionWithQuantizer is built with.
MaxFreeze == 2
\* Largest step passed to update_for_step.
MaxSupplied == 3
\* Largest diversity loss the quantizer returns.
MaxLoss == 2

\* ------------------------------------------------------- python values
Absent == [kind |-> "absent", keys |-> << >>]
Str(k) == [kind |-> "str", keys |-> <<k>>]
List(ks) == [kind |-> "list", keys |-> ks]

Tensor(d) == [kind |-> "tensor", v |-> d, items |-> << >>]
Scalar(d) == [kind |-> "scalar", v |-> d, items |-> << >>]
Tuple(ds) == [kind |-> "tuple", v |-> 0, items |-> ds]

\* The empty dict.
EmptyDict == [k \in {} |-> Tensor(0)]

\* dict.update / {**a, **b}: keys of b overwrite keys of a.
Update(a, b) == [k \in DOMAIN a \cup DOMAIN b |-> IF k \in DOMAIN b THEN b[k] ELSE a[k]]

\* ------------------------------------------------------- configuration
DispatchedTypes == {"generator", "discriminator", "scheduled_scalar", "img_grad",
                    "add_noise", "greyscale", "interpolate", "imageflow"}

\* Names the module defines at import time: the import of ImageFlowInjector
\* is commented out, so that name is unbound.
DefinedClasses == {"Injector", "ImageGeneratorInjector", "DiscriminatorInjector",
                   "ScheduledScalarInjector", "ImageGradientInjector", "AddNoiseInjector",
                   "GreyInjector", "InterpolateInjector"}

Types == DispatchedTypes \cup {"bogus"}

InFields == {Absent, Str("a"), List(<<"a", "b">>)}
OutFields == {Absent, Str("b"), List(<<"b", "c">>)}

\* opt['scale'] of add_noise: a number or the name of a state key.
ScaleNum == [kind |-> "num", v |-> 1, key |-> ""]
ScaleKey == [kind |-> "str", v |-> 0, key |-> "b"]
ScaleAbsent == [kind |-> "absent", v |-> 0, key |-> ""]

ScaleFields(type) == IF type = "add_noise" THEN {ScaleNum, ScaleKey} ELSE {ScaleAbsent}

\* opt['scheduler'] is present (TRUE) or missing (FALSE).
SchedulerFields(type) == IF type = "scheduled_scalar" THEN {TRUE, FALSE} ELSE {FALSE}

\* opt['generator'] / opt['discriminator']: the name of the sub-model.
ModelName(type) ==
  IF type = "generator" THEN "gen" ELSE IF type = "discriminator" THEN "disc" ELSE ""

Opts ==
  UNION { { [type |-> t, in |-> i, out |-> o, scale |-> s, scheduler |-> h, model |-> ModelName(t)]
            : s \in ScaleFields(t), h \in SchedulerFields(t) }
          : t \in Types, i \in InFields, o \in OutFields }

\* env['generators'] and env['discriminators'].
Generators == {"gen"}
Discriminators == {"disc"}

\* ------------------------------------------------------- construction
NoInstance == [cls |-> "None", opt |-> [type |-> "", in |-> Absent, out |-> Absent,
                                        scale |-> ScaleAbsent, scheduler |-> FALSE, model |-> ""],
               has_input |-> FALSE, input |-> Absent, output |-> Absent]

Raise(e) == [err |-> e, inst |-> NoInstance]

\* Mutant: self.output = opt.get('out'), which never raises.
Injector_init_getOut(cls, opt) ==
  [err |-> "none",
   inst |-> [cls |-> cls, opt |-> opt,
             has_input |-> (opt.in.kind # "absent"),
             input |-> opt.in,
             output |-> opt.out]]

\* Injector.__init__: self.input is set only when 'in' is a key of opt;
\* opt['out'] raises KeyError when 'out' is missing.
Injector_init(cls, opt) ==
  IF opt.out.kind = "absent"
  THEN Raise("KeyError")
  ELSE [err |-> "none",
        inst |-> [cls |-> cls, opt |-> opt,
                  has_input |-> (opt.in.kind # "absent"),
                  input |-> opt.in,
                  output |-> opt.out]]

\* ScheduledScalarInjector.__init__: reads opt['scheduler'] after the base
\* constructor.
ScheduledScalarInjector_init(opt) ==
  LET base == Injector_init("ScheduledScalarInjector", opt)
  IN  IF base.err # "none" THEN base
      ELSE IF ~opt.scheduler THEN Raise("KeyError")
      ELSE base

\* Calling a class by name: NameError when the name is unbound.
Construct(cls, opt) ==
  IF cls \notin DefinedClasses THEN Raise("NameError")
  ELSE IF cls = "ScheduledScalarInjector" THEN ScheduledScalarInjector_init(opt)
  ELSE Injector_init(cls, opt)

\* Mutant: the final else falls back to the base class instead of raising.
create_injector_fallback(opt) ==
  LET type == opt.type
  IN  IF type = "generator" THEN Construct("ImageGeneratorInjector", opt)
      ELSE IF type = "discriminator" THEN Construct("DiscriminatorInjector", opt)
      ELSE IF type = "scheduled_scalar" THEN Construct("ScheduledScalarInjector", opt)
      ELSE IF type = "img_grad" THEN Construct("ImageGradientInjector", opt)
      ELSE IF type = "add_noise" THEN Construct("AddNoiseInjector", opt)
      ELSE IF type = "greyscale" THEN Construct("GreyInjector", opt)
      ELSE IF type = "interpolate" THEN Construct("InterpolateInjector", opt)
      ELSE IF type = "imageflow" THEN Construct("ImageFlowInjector", opt)
      ELSE Construct("Injector", opt)

create_injector(opt) ==
  LET type == opt.type
  IN  IF type = "generator" THEN Construct("ImageGeneratorInjector", opt)
      ELSE IF type = "discriminator" THEN Construct("DiscriminatorInjector", opt)
      ELSE IF type = "scheduled_scalar" THEN Construct("ScheduledScalarInjector", opt)
      ELSE IF type = "img_grad" THEN Construct("ImageGradientInjector", opt)
      ELSE IF type = "add_noise" THEN Construct("AddNoiseInjector", opt)
      ELSE IF type = "greyscale" THEN Construct("GreyInjector", opt)
      ELSE IF type = "interpolate" THEN Construct("InterpolateInjector", opt)
      ELSE IF type = "imageflow" THEN Construct("ImageFlowInjector", opt)
      ELSE Raise("NotImplementedError")

\* ---------------------------------------------------------- collaborators
\* ImageGradientNoPadding (models.archs.SPSR_arch): a deterministic transform.
img_grad_fn(d) == 2 * d + 10

\* torch.mean(dim=1, keepdim=True) followed by repeat(1, 3, 1, 1).
mean_repeat(d) == d + 20

\* torch.nn.functional.interpolate with the configured scale_factor and mode.
interpolate(d) == 3 * d + 30

\* scheduler.get_weight_for_step (data.weight_scheduler): a linear ramp.
get_weight_for_step(step) == 5 + 2 * step

\* What a sub-model call can return: one tensor, or a tuple of 0..MaxResultLen
\* tensors.
TupleOfLen(d, n) == Tuple([i \in 1..n |-> d + i])
Results ==
  {Tensor(d) : d \in 0..MaxData} \cup { TupleOfLen(d, n) : d \in 0..MaxData, n \in 0..MaxResultLen }

\* ----------------------------------------------------------------- forward
\* The outcome of one forward call: the exception raised ("none" when it
\* returns), the dict returned, the dict passed in as the call leaves it, and
\* whether the sub-model was invoked.
Fail(e, state, called) ==
  [err |-> e, new_state |-> EmptyDict, state |-> state, called |-> called]
Return(new_state, state, called) ==
  [err |-> "none", new_state |-> new_state, state |-> state, called |-> called]

Range(seq) == {seq[i] : i \in 1..Len(seq)}

\* for i, k in enumerate(self.output): new_state[k] = results[i]
\* (a key listed twice keeps the later position).
Unpack(output, results) ==
  [k \in Range(output.keys) |->
     LET i == CHOOSE j \in 1..Len(output.keys) :
                  /\ output.keys[j] = k
                  /\ \A h \in 1..Len(output.keys) : output.keys[h] = k => h <= j
     IN  Tensor(results.items[i])]

\* Mutant: for k, r in zip(self.output, results), which stops at the shorter
\* of the two and never raises.
StoreResults_zip(self, state, results) ==
  IF self.output.kind = "list"
  THEN IF results.kind # "tuple" THEN Fail("AssertionError", state, TRUE)
       ELSE Return([k \in {self.output.keys[i] :
                             i \in 1..Len(self.output.keys) \cap 1..Len(results.items)} |->
                      Tensor(results.items[CHOOSE i \in 1..Len(self.output.keys) :
                                             self.output.keys[i] = k])],
                   state, TRUE)
  ELSE Return([k \in {self.output.keys[1]} |-> results], state, TRUE)

\* Lines 57-66 and 81-90: the result is stored under `out`.
StoreResults(self, state, results) ==
  IF self.output.kind = "list"
  THEN IF results.kind # "tuple" THEN Fail("AssertionError", state, TRUE)
       ELSE IF Len(results.items) < Len(self.output.keys) THEN Fail("IndexError", state, TRUE)
       ELSE Return(Unpack(self.output, results), state, TRUE)
  ELSE Return([k \in {self.output.keys[1]} |-> results], state, TRUE)

\* Lines 52-56 and 76-80: the arguments are gathered from state before the call.
MissingParam(self, state) ==
  IF self.input.kind = "list"
  THEN \E i \in 1..Len(self.input.keys) : self.input.keys[i] \notin DOMAIN state
  ELSE self.input.keys[1] \notin DOMAIN state

\* Mutant: the arguments are popped from state (state.pop(i)) instead of read.
ImageGeneratorInjector_forward_pop(self, state, results) ==
  IF self.opt.model \notin Generators THEN Fail("KeyError", state, FALSE)
  ELSE IF ~self.has_input THEN Fail("AttributeError", state, FALSE)
  ELSE IF MissingParam(self, state) THEN Fail("KeyError", state, FALSE)
  ELSE StoreResults(self, [k \in DOMAIN state \ Range(self.input.keys) |-> state[k]], results)

\* Mutant: the arguments are read with state.get(i), so a missing key is
\* passed on as None.
ImageGeneratorInjector_forward_get(self, state, results) ==
  IF self.opt.model \notin Generators THEN Fail("KeyError", state, FALSE)
  ELSE IF ~self.has_input THEN Fail("AttributeError", state, FALSE)
  ELSE StoreResults(self, state, results)

ImageGeneratorInjector_forward(self, state, results) ==
  IF self.opt.model \notin Generators THEN Fail("KeyError", state, FALSE)
  ELSE IF ~self.has_input THEN Fail("AttributeError", state, FALSE)
  ELSE IF MissingParam(self, state) THEN Fail("KeyError", state, FALSE)
  ELSE StoreResults(self, state, results)

\* Mutant: getattr(self, 'input', []), so a missing `in` calls the
\* discriminator with no argument.
DiscriminatorInjector_forward_noInput(self, state, results) ==
  IF self.opt.model \notin Discriminators THEN Fail("KeyError", state, FALSE)
  ELSE IF ~self.has_input THEN StoreResults(self, state, results)
  ELSE IF MissingParam(self, state) THEN Fail("KeyError", state, FALSE)
  ELSE StoreResults(self, state, results)

DiscriminatorInjector_forward(self, state, results) ==
  IF self.opt.model \notin Discriminators THEN Fail("KeyError", state, FALSE)
  ELSE IF ~self.has_input THEN Fail("AttributeError", state, FALSE)
  ELSE IF MissingParam(self, state) THEN Fail("KeyError", state, FALSE)
  ELSE StoreResults(self, state, results)

\* state[self.opt['in']]: KeyError when opt has no 'in' or state lacks the
\* key, TypeError when 'in' is a list (unhashable).
Lookup_in(self, state) ==
  IF self.opt.in.kind = "absent" THEN "KeyError"
  ELSE IF self.opt.in.kind = "list" THEN "TypeError"
  ELSE IF self.opt.in.keys[1] \notin DOMAIN state THEN "KeyError"
  ELSE "none"

\* Mutant: the value is stored under opt['in'] instead of opt['out'].
Emit_underIn(self, state, value) ==
  IF self.opt.out.kind = "list" THEN Fail("TypeError", state, FALSE)
  ELSE IF self.opt.in.kind # "str"
  THEN Return([k \in {self.opt.out.keys[1]} |-> value], state, FALSE)
  ELSE Return([k \in {self.opt.in.keys[1]} |-> value], state, FALSE)

\* {self.opt['out']: value}: a list is unhashable and cannot be a dict key.
Emit(self, state, value) ==
  IF self.opt.out.kind = "list" THEN Fail("TypeError", state, FALSE)
  ELSE Return([k \in {self.opt.out.keys[1]} |-> value], state, FALSE)

\* A tensor operation on state[self.opt['in']]: the lookup's exception, or
\* TypeError when the operand is no tensor.
Operand_err(self, state) ==
  IF Lookup_in(self, state) # "none" THEN Lookup_in(self, state)
  ELSE IF state[self.opt.in.keys[1]].kind # "tensor" THEN "TypeError"
  ELSE "none"

ImageGradientInjector_forward(self, state) ==
  IF Operand_err(self, state) # "none" THEN Fail(Operand_err(self, state), state, FALSE)
  ELSE Emit(self, state, Tensor(img_grad_fn(state[self.opt.in.keys[1]].v)))

GreyInjector_forward(self, state) ==
  IF Operand_err(self, state) # "none" THEN Fail(Operand_err(self, state), state, FALSE)
  ELSE Emit(self, state, Tensor(mean_repeat(state[self.opt.in.keys[1]].v)))

InterpolateInjector_forward(self, state) ==
  IF Operand_err(self, state) # "none" THEN Fail(Operand_err(self, state), state, FALSE)
  ELSE Emit(self, state, Tensor(interpolate(state[self.opt.in.keys[1]].v)))

\* Mutant: a value already in state under `out` is returned as it is.
ScheduledScalarInjector_forward_cached(self, state, step) ==
  IF self.opt.out.kind = "str" /\ self.opt.out.keys[1] \in DOMAIN state
  THEN Emit(self, state, state[self.opt.out.keys[1]])
  ELSE Emit(self, state, Scalar(get_weight_for_step(step)))

ScheduledScalarInjector_forward(self, state, step) ==
  Emit(self, state, Scalar(get_weight_for_step(step)))

\* Mutant: state[in] += noise, which changes the tensor held by state.
AddNoiseInjector_forward_inplace(self, state, draw) ==
  IF self.opt.scale.kind = "absent" THEN Fail("KeyError", state, FALSE)
  ELSE IF self.opt.scale.kind = "str" /\ self.opt.scale.key \notin DOMAIN state
  THEN Fail("KeyError", state, FALSE)
  ELSE LET scale == IF self.opt.scale.kind = "str" THEN state[self.opt.scale.key]
                    ELSE Scalar(self.opt.scale.v)
       IN  IF Lookup_in(self, state) # "none" THEN Fail(Lookup_in(self, state), state, FALSE)
           ELSE LET x == state[self.opt.in.keys[1]]
                    y == Tensor(x.v + draw * scale.v)
                IN  IF x.kind # "tensor" \/ scale.kind = "tuple"
                    THEN Fail("TypeError", state, FALSE)
                    ELSE Emit(self, [state EXCEPT ![self.opt.in.keys[1]] = y], y)

AddNoiseInjector_forward(self, state, draw) ==
  IF self.opt.scale.kind = "absent" THEN Fail("KeyError", state, FALSE)
  ELSE IF self.opt.scale.kind = "str" /\ self.opt.scale.key \notin DOMAIN state
  THEN Fail("KeyError", state, FALSE)
  ELSE LET scale == IF self.opt.scale.kind = "str" THEN state[self.opt.scale.key]
                    ELSE Scalar(self.opt.scale.v)
       IN  IF Lookup_in(self, state) # "none" THEN Fail(Lookup_in(self, state), state, FALSE)
           ELSE LET x == state[self.opt.in.keys[1]]
                IN  IF x.kind # "tensor" \/ scale.kind = "tuple"
                    THEN Fail("TypeError", state, FALSE)
                    ELSE Emit(self, state, Tensor(x.v + draw * scale.v))

\* Injector.forward of the base class.
Injector_forward(self, state) == Fail("NotImplementedError", state, FALSE)

\* Method dispatch on the instance's class.
forward(self, state, step, results, draw) ==
  CASE self.cls = "ImageGeneratorInjector" -> ImageGeneratorInjector_forward(self, state, results)
    [] self.cls = "DiscriminatorInjector" -> DiscriminatorInjector_forward(self, state, results)
    [] self.cls = "ScheduledScalarInjector" -> ScheduledScalarInjector_forward(self, state, step)
    [] self.cls = "ImageGradientInjector" -> ImageGradientInjector_forward(self, state)
    [] self.cls = "AddNoiseInjector" -> AddNoiseInjector_forward(self, state, draw)
    [] self.cls = "GreyInjector" -> GreyInjector_forward(self, state)
    [] self.cls = "InterpolateInjector" -> InterpolateInjector_forward(self, state)
    [] OTHER -> Injector_forward(self, state)

\* ---------------------------------------------------------------- executor
VARIABLES
  pc,        \* where the executor is: "begin", "create", "apply", "merge",
             \* "done", "halted" (a forward raised), "config_error"
  env_step,  \* env['step']
  created,   \* the last create_injector call: its opt and what it returned
  pos,       \* injectors already run in this step
  state,     \* the shared state dict of the step
  injected,  \* the dict the last forward returned
  err,       \* the exception the last forward raised, "none" when it returned
  called,    \* whether the last forward invoked its sub-model
  sub_result, \* what the sub-model returned to the last forward
  written    \* history: the value last written under each key in this step

vars == <<pc, env_step, created, pos, state, injected, err, called, sub_result, written>>

\* The batch the executor seeds the state with.
Seeds ==
  { EmptyDict,
    [k \in {"a"} |-> Tensor(1)],
    [k \in {"a", "b"} |-> Tensor(1)] }

NoCall == [opt |-> NoInstance.opt, ret |-> Raise("none")]

\* No sub-model has been invoked.
NoResult == Tensor(0)

\* ------------------------------------- TransformerDiffusionWithQuantizer
\* codes/models/audio/music/transformer_diffusion9.py.  Losses are finite
\* numbers; temperatures are counted in units of 0.5.
VARIABLES
  internal_step,           \* self.internal_step
  freeze_quantizer_until,  \* self.freeze_quantizer_until
  temperature,             \* self.quantizer.quantizer.temperature
  supplied,                \* history: the step of the last update_for_step, 0 if none
  q_last                   \* history: the last forward call and what it returned

qvars == <<internal_step, freeze_quantizer_until, temperature, supplied, q_last>>

allvars == <<vars, qvars>>

\* freeze_quantizer_until's default.
DefaultFreeze == 20000
\* max_gumbel_temperature=4 and min_gumbel_temperature=.5, in units of 0.5.
max_gumbel_temperature == 8
min_gumbel_temperature == 1

Max(a, b) == IF a >= b THEN a ELSE b

RECURSIVE Pow2(_)
Pow2(n) == IF n = 0 THEN 1 ELSE 2 * Pow2(n - 1)

\* max_gumbel_temperature * gumbel_temperature_decay ** qstep (MusicQuantizer2):
\* the decay is taken as a halving per step.
Decayed(qstep) == max_gumbel_temperature \div Pow2(qstep)

\* update_for_step: the new internal_step and quantizer temperature.
update_for_step(self, step) ==
  LET qstep == Max(0, step - self.freeze_quantizer_until)
  IN  [internal_step |-> step,
       temperature |-> Max(Decayed(qstep), min_gumbel_temperature)]

\* self.diff(x, timesteps, codes=proj, ...): the denoiser's output for the codes.
TransformerDiffusion_forward(codes) == codes + 100

\* What forward returns: diff alone, or the pair (diff, diversity_loss).
Single(diff) == [kind |-> "single", diff |-> diff, diversity_loss |-> 0]
Pair(diff, loss) == [kind |-> "pair", diff |-> diff, diversity_loss |-> loss]

\* Mutant: the quantizer is unfrozen from step freeze_quantizer_until on (>=).
TransformerDiffusionWithQuantizer_forward_ge(self, proj, raw_loss, disable_diversity) ==
  LET quant_grad_enabled == self.internal_step >= self.freeze_quantizer_until
      diversity_loss == IF ~quant_grad_enabled THEN raw_loss * 0 ELSE raw_loss
      diff == TransformerDiffusion_forward(proj)
  IN  [grad |-> quant_grad_enabled,
       ret |-> IF disable_diversity THEN Single(diff) ELSE Pair(diff, diversity_loss)]

\* forward: proj and raw_loss are what self.quantizer returned; grad is the
\* mode torch.set_grad_enabled put the quantizer's run in.
TransformerDiffusionWithQuantizer_forward(self, proj, raw_loss, disable_diversity) ==
  LET quant_grad_enabled == self.internal_step > self.freeze_quantizer_until
      diversity_loss == IF ~quant_grad_enabled THEN raw_loss * 0 ELSE raw_loss
      diff == TransformerDiffusion_forward(proj)
  IN  [grad |-> quant_grad_enabled,
       ret |-> IF disable_diversity THEN Single(diff) ELSE Pair(diff, diversity_loss)]

NoForward ==
  [done |-> FALSE, supplied |-> 0, grad |-> FALSE, raw_loss |-> 0,
   disable_diversity |-> FALSE, ret |-> Single(0)]

\* The quantizer model as __init__ leaves it.
Constructed(freeze) ==
  /\ internal_step = 0
  /\ freeze_quantizer_until = freeze
  /\ temperature = min_gumbel_temperature
  /\ supplied = 0
  /\ q_last = NoForward

ExecutorInit ==
  /\ pc = "begin"
  /\ env_step = 0
  /\ created = NoCall
  /\ pos = 0
  /\ state = EmptyDict
  /\ injected = EmptyDict
  /\ err = "none"
  /\ called = FALSE
  /\ sub_result = NoResult
  /\ written = EmptyDict

Init == ExecutorInit /\ Constructed(DefaultFreeze)

\* A training step starts: the state is created from the batch.
BeginStep(seed) ==
  /\ pc = "begin"
  /\ pc' = "create"
  /\ state' = seed
  /\ written' = seed
  /\ pos' = 0
  /\ injected' = EmptyDict
  /\ err' = "none"
  /\ called' = FALSE
  /\ sub_result' = NoResult
  /\ created' = NoCall
  /\ UNCHANGED env_step
  /\ UNCHANGED qvars

\* The next injector of the configured sequence is built from its opt; an
\* exception of the factory is fatal.
CreateInjector(opt) ==
  /\ pc = "create"
  /\ pos < MaxInjectors
  /\ LET ret == create_injector(opt)
     IN  /\ created' = [opt |-> opt, ret |-> ret]
         /\ pc' = IF ret.err = "none" THEN "apply" ELSE "config_error"
  /\ UNCHANGED <<env_step, pos, state, injected, err, called, sub_result, written>>
  /\ UNCHANGED qvars

\* injected = inj(state): the injector's forward runs on the shared state; an
\* exception halts the step.
Forward(results, draw) ==
  /\ pc = "apply"
  /\ LET r == forward(created.ret.inst, state, env_step, results, draw)
     IN  /\ state' = r.state
         /\ injected' = r.new_state
         /\ err' = r.err
         /\ called' = r.called
         /\ sub_result' = IF r.called THEN results ELSE NoResult
         /\ pc' = IF r.err = "none" THEN "merge" ELSE "halted"
  /\ UNCHANGED <<env_step, created, pos, written>>
  /\ UNCHANGED qvars

\* state.update(injected), then on to the next injector.
Merge ==
  /\ pc = "merge"
  /\ state' = Update(state, injected)
  /\ written' = [k \in DOMAIN written \cup DOMAIN injected |->
                   IF k \in DOMAIN injected THEN injected[k] ELSE written[k]]
  /\ pos' = pos + 1
  /\ pc' = "create"
  /\ UNCHANGED <<env_step, created, injected, err, called, sub_result>>
  /\ UNCHANGED qvars

\* The configured sequence is exhausted.
EndStep ==
  /\ pc = "create"
  /\ pc' = "done"
  /\ UNCHANGED <<env_step, created, pos, state, injected, err, called, sub_result, written>>
  /\ UNCHANGED qvars

\* Between steps the executor advances env['step'] and discards the state.
AdvanceStep ==
  /\ pc = "done"
  /\ env_step < MaxStep
  /\ env_step' = env_step + 1
  /\ pc' = "begin"
  /\ state' = EmptyDict
  /\ written' = EmptyDict
  /\ pos' = 0
  /\ injected' = EmptyDict
  /\ err' = "none"
  /\ called' = FALSE
  /\ sub_result' = NoResult
  /\ created' = NoCall
  /\ UNCHANGED qvars

Next ==
  \/ \E seed \in Seeds : BeginStep(seed)
  \/ \E opt \in Opts : CreateInjector(opt)
  \/ \E results \in Results, draw \in 0..MaxNoise : Forward(results, draw)
  \/ Merge
  \/ EndStep
  \/ AdvanceStep

Spec == Init /\ [][Next]_allvars

\* ------------------------------------------- quantizer model's life cycle
InitQ == ExecutorInit /\ \E freeze \in 0..MaxFreeze : Constructed(freeze)

\* The trainer calls update_for_step(step).
UpdateForStep(step) ==
  /\ LET u == update_for_step([internal_step |-> internal_step,
                               freeze_quantizer_until |-> freeze_quantizer_until], step)
     IN  /\ internal_step' = u.internal_step
         /\ temperature' = u.temperature
  /\ supplied' = step
  /\ UNCHANGED <<freeze_quantizer_until, q_last>>
  /\ UNCHANGED vars

\* The trainer calls forward; the quantizer returns proj and raw_loss.
ForwardQ(proj, raw_loss, disable_diversity) ==
  /\ LET r == TransformerDiffusionWithQuantizer_forward(
                [internal_step |-> internal_step,
                 freeze_quantizer_until |-> freeze_quantizer_until],
                proj, raw_loss, disable_diversity)
     IN  q_last' = [done |-> TRUE, supplied |-> supplied, grad |-> r.grad,
                    raw_loss |-> raw_loss, disable_diversity |-> disable_diversity,
                    ret |-> r.ret]
  /\ UNCHANGED <<internal_step, freeze_quantizer_until, temperature, supplied>>
  /\ UNCHANGED vars

NextQ ==
  \/ \E step \in 0..MaxSupplied : UpdateForStep(step)
  \/ \E proj \in 0..MaxData, raw_loss \in 0..MaxLoss, disable_diversity \in BOOLEAN :
       ForwardQ(proj, raw_loss, disable_diversity)

SpecQ == InitQ /\ [][NextQ]_allvars

\* ------------------------------------------------------------------ claims
\* The injector whose turn it is, and its configuration.
inj == created.ret.inst
cfg == created.opt

\* A forward call has just ended: it returned ("merge") or raised ("halted").
Applied == pc \in {"merge", "halted"}

ModelInvoking == inj.cls \in {"ImageGeneratorInjector", "DiscriminatorInjector"}

\* create_injector has been called with a configuration.
Configured == cfg \in Opts

\* C1, as stated: with `out` a list, a model-invocation injector's apply
\* succeeds only when the sub-model's result is a list/tuple of exactly
\* len(out) entries, and fails for every other result.
C1_ExactLength ==
  (Applied /\ ModelInvoking /\ inj.output.kind = "list") =>
    /\ err = "none" =>
         called /\ sub_result.kind = "tuple"
                /\ Len(sub_result.items) = Len(inj.output.keys)
    /\ (called /\ ~(sub_result.kind = "tuple"
                    /\ Len(sub_result.items) = Len(inj.output.keys))) =>
         err # "none"

\* C1, amended: with `out` a list, apply succeeds exactly when the sub-model
\* was invoked and its result is a list/tuple of at least len(out) entries;
\* entry i is then stored under out[i] and the surplus entries are dropped.
\* A result that is no list/tuple, or is shorter than `out`, makes apply fail
\* and return no mapping.
C1_AtLeastLength ==
  (Applied /\ ModelInvoking /\ inj.output.kind = "list") =>
    /\ err = "none" <=>
         (called /\ sub_result.kind = "tuple"
                 /\ Len(sub_result.items) >= Len(inj.output.keys))
    /\ err = "none" =>
         /\ DOMAIN injected = Range(inj.output.keys)
         /\ \A i \in 1..Len(inj.output.keys) :
              injected[inj.output.keys[i]] = Tensor(sub_result.items[i])
    /\ err # "none" => injected = EmptyDict /\ pc = "halted"
    /\ (called /\ sub_result.kind # "tuple") => err = "AssertionError"
    /\ (called /\ sub_result.kind = "tuple"
               /\ Len(sub_result.items) < Len(inj.output.keys)) => err = "IndexError"

\* `out` has 2 entries, the sub-model returned 3, and apply returned.
C1_Witness ==
  /\ pc = "merge" /\ ModelInvoking /\ inj.output.kind = "list"
  /\ Len(inj.output.keys) = 2
  /\ sub_result.kind = "tuple" /\ Len(sub_result.items) = 3

\* C2: create_injector on a `type` it does not dispatch on raises
\* NotImplementedError, returns no instance, and the executor never reaches an
\* apply for that configuration.
C2_UnknownTypeRejected ==
  (Configured /\ cfg.type \notin DispatchedTypes) =>
    /\ created.ret.err = "NotImplementedError"
    /\ created.ret.inst = NoInstance
    /\ pc = "config_error"

C2_Witness ==
  /\ Configured /\ cfg.type = "bogus" /\ cfg.out.kind = "str"
  /\ pc = "config_error"

\* C3: whenever apply returns, the returned mapping's key set is {out} for a
\* single `out` key and the set of configured keys for a list `out`.
C3_KeySet ==
  pc = "merge" =>
    DOMAIN injected = IF cfg.out.kind = "list" THEN Range(cfg.out.keys)
                      ELSE {cfg.out.keys[1]}

\* A discriminator with a list `out` has returned on a result that holds more
\* entries than `out` names.
C3_Witness ==
  /\ pc = "merge" /\ inj.cls = "DiscriminatorInjector"
  /\ cfg.out.kind = "list"
  /\ Len(sub_result.items) > Len(cfg.out.keys)

\* The variants whose class the module defines.
Constructible == DispatchedTypes \ {"imageflow"}

\* C4: a configuration without `out` yields an error and no instance; one
\* with `out` and without `in` (and with the variant's own required fields)
\* yields an instance that has no stored input.
C4_OutRequired ==
  Configured =>
    /\ cfg.out.kind = "absent" =>
         /\ created.ret.err # "none"
         /\ created.ret.inst = NoInstance
         /\ pc = "config_error"
         /\ cfg.type \in Constructible => created.ret.err = "KeyError"
    /\ ( /\ cfg.out.kind # "absent" /\ cfg.in.kind = "absent"
         /\ cfg.type \in Constructible
         /\ cfg.type = "scheduled_scalar" => cfg.scheduler ) =>
         /\ created.ret.err = "none"
         /\ inj # NoInstance
         /\ inj.opt = cfg /\ inj.output = cfg.out /\ ~inj.has_input

\* An img_grad configuration with `out` and without `in` was accepted.
C4_Witness ==
  /\ Configured /\ cfg.type = "img_grad"
  /\ cfg.out.kind # "absent" /\ cfg.in.kind = "absent"
  /\ created.ret.err = "none" /\ pc = "apply"

\* C5: a forward call leaves the state dict it was given as it was, whether
\* it returns or raises.
C5_StateUntouched == [][pc = "apply" => state' = state]_vars

\* add_noise has returned a tensor that differs from its input.
C5_Witness ==
  /\ pc = "merge" /\ inj.cls = "AddNoiseInjector"
  /\ \E k \in DOMAIN injected : injected[k] # state[cfg.in.keys[1]]

\* C6: within a step the key set of the state never shrinks, and the state
\* holds under every key the value most recently written to it (by the seed
\* or by a merged mapping), which is what the next injector reads.
C6_Visible ==
  /\ [](pc # "begin" => state = written)
  /\ [][(pc # "begin" /\ pc' # "begin") => DOMAIN state \subseteq DOMAIN state']_vars

\* The second injector's turn has come and an earlier injector has overwritten
\* a seeded key.
C6_Witness ==
  /\ pc = "apply" /\ pos = 1
  /\ "b" \in DOMAIN state /\ state["b"] # Tensor(1)
  /\ "a" \in DOMAIN state

\* The state keys a forward call looks up.  A list `in` of a variant other
\* than model invocation is used whole as the subscript (unhashable, a
\* TypeError), so it names no key.
ReadKeys(self) ==
  IF self.cls \in {"ImageGeneratorInjector", "DiscriminatorInjector"}
  THEN IF self.has_input THEN Range(self.input.keys) ELSE {}
  ELSE IF self.cls = "ScheduledScalarInjector" THEN {}
  ELSE (IF self.opt.in.kind = "str" THEN {self.opt.in.keys[1]} ELSE {})
       \cup (IF self.cls = "AddNoiseInjector" /\ self.opt.scale.kind = "str"
             THEN {self.opt.scale.key} ELSE {})

\* C7: when a state key the injector reads is absent, apply raises KeyError
\* without invoking a sub-model, returns no mapping, and the step halts for
\* good.
C7_MissingKeyHalts ==
  /\ []((Applied /\ ~(ReadKeys(inj) \subseteq DOMAIN state)) =>
          /\ err = "KeyError"
          /\ injected = EmptyDict
          /\ ~called
          /\ pc = "halted")
  /\ [][pc = "halted" => pc' = "halted"]_vars

\* add_noise halted on the missing state key its string `scale` names, its
\* `in` key being there.
C7_Witness ==
  /\ pc = "halted" /\ inj.cls = "AddNoiseInjector"
  /\ cfg.scale.kind = "str" /\ cfg.scale.key \notin DOMAIN state
  /\ cfg.in.kind = "str" /\ cfg.in.keys[1] \in DOMAIN state

\* The class create_injector dispatches a type to.
ClassOf(type) ==
  CASE type = "generator" -> "ImageGeneratorInjector"
    [] type = "discriminator" -> "DiscriminatorInjector"
    [] type = "scheduled_scalar" -> "ScheduledScalarInjector"
    [] type = "img_grad" -> "ImageGradientInjector"
    [] type = "add_noise" -> "AddNoiseInjector"
    [] type = "greyscale" -> "GreyInjector"
    [] type = "interpolate" -> "InterpolateInjector"
    [] type = "imageflow" -> "ImageFlowInjector"
    [] OTHER -> "None"

\* C8: for every type the factory dispatches on, a configuration with the
\* required fields yields an instance of the matching class; the factory's
\* only failure is NotImplementedError, for the other type strings.
C8_FactoryTotal ==
  (Configured /\ cfg.out.kind # "absent"
              /\ (cfg.type = "scheduled_scalar" => cfg.scheduler)) =>
    /\ cfg.type \in DispatchedTypes =>
         created.ret.err = "none" /\ inj.cls = ClassOf(cfg.type)
    /\ cfg.type \notin DispatchedTypes => created.ret.err = "NotImplementedError"

\* The executor's states a forward call may be given.
OtherStates == Seeds \cup {state, Update(state, [k \in {"b", "c"} |-> Scalar(7)])}

\* C9: scheduled_scalar's apply is a function of env['step'] alone: it
\* returns {out: weight(step)}, and on any other state, with the same step,
\* it ends the same way.
C9_StepOnly ==
  (Applied /\ inj.cls = "ScheduledScalarInjector") =>
    /\ err = "none" =>
         injected = [k \in {cfg.out.keys[1]} |-> Scalar(get_weight_for_step(env_step))]
    /\ \A s2 \in OtherStates : \A r \in Results :
         LET o == forward(inj, s2, env_step, r, 0)
         IN  o.err = err /\ o.new_state = injected

\* scheduled_scalar has returned on a state that already held its `out` key,
\* at a step after the first.
C9_Witness ==
  /\ pc = "merge" /\ inj.cls = "ScheduledScalarInjector"
  /\ env_step = 1
  /\ cfg.out.keys[1] \in DOMAIN state

\* C10: a generator or discriminator configured without `in` is constructed,
\* and each apply on it raises AttributeError before the sub-model is invoked
\* and returns no mapping, whatever the state.
C10_NoInputFails ==
  /\ (Configured /\ cfg.type \in {"generator", "discriminator"}
                 /\ cfg.in.kind = "absent" /\ cfg.out.kind # "absent") =>
       created.ret.err = "none" /\ ModelInvoking /\ ~inj.has_input
  /\ (Applied /\ ModelInvoking /\ ~inj.has_input) =>
       /\ err = "AttributeError"
       /\ ~called
       /\ injected = EmptyDict
       /\ pc = "halted"

\* A discriminator without `in` was applied to a state that holds every key.
C10_Witness ==
  /\ pc = "halted" /\ inj.cls = "DiscriminatorInjector" /\ ~inj.has_input
  /\ DOMAIN state = {"a", "b"}

\* C11: forward runs the quantizer with gradients enabled exactly when the
\* step last passed to update_for_step (0 if none) is greater than
\* freeze_quantizer_until; with gradients disabled the diversity loss it
\* returns is zero; it returns the pair (diff, diversity_loss), or diff alone
\* when disable_diversity is set.
C11_FreezeGate ==
  q_last.done =>
    /\ q_last.grad <=> (q_last.supplied > freeze_quantizer_until)
    /\ q_last.ret.kind = (IF q_last.disable_diversity THEN "single" ELSE "pair")
    /\ (~q_last.grad /\ q_last.ret.kind = "pair") => q_last.ret.diversity_loss = 0

\* forward ran at step = freeze_quantizer_until, after an update_for_step, on
\* a nonzero quantizer loss, and returned the pair.
C11_Witness ==
  /\ q_last.done /\ q_last.supplied = freeze_quantizer_until
  /\ q_last.supplied > 0
  /\ q_last.raw_loss > 0
  /\ q_last.ret.kind = "pair"

====
